---- MODULE Spec2Model ----
(***************************************************************************)
(* Model of the BigQuery SQL Agent web server (server.py, agent.py):       *)
(* the session registry (active_runners), the runtime's session store      *)
(* (session_service), the request handlers query / reset_session /         *)
(* list_projects / list_datasets and the SSE generator event_stream.       *)
(*                                                                         *)
(* Strings that the code inspects character by character (the              *)
(* Authorization header, the message) are sequences of one-character      *)
(* strings; identifiers that are only compared are TLA+ strings.           *)
(***************************************************************************)
EXTENDS Integers, Sequences, FiniteSets, TLC

(***************************************************************************)
(* Bounds                                                                  *)
(***************************************************************************)
\* number of request tasks that can be in progress at the same time
NReq == 2
\* total number of POST /api/query calls handled in one behaviour
MaxCalls == 2
\* raw events one turn of the runtime feeds before it ends or raises
MaxFeed == 2
\* items in one upstream listing of projects or datasets
MaxItems == 3

Slots == 1..NReq

(***************************************************************************)
(* Python values of the JSON body: None or a string                        *)
(***************************************************************************)
None == [t |-> "None", s |-> ""]
Str(x) == [t |-> "str", s |-> x]
\* truth value of an optional string in `if x` / `not x` / `x and ...`
Truthy(v) == v.t = "str" /\ v.s # ""

\* int-or-None fields of usage_metadata: NoneInt stands for Python's None
NoneInt == -1
\* `x or 0`
OrZero(x) == IF x = NoneInt \/ x = 0 THEN 0 ELSE x

(***************************************************************************)
(* _extract_token                                                          *)
(***************************************************************************)
BearerPrefix == <<"B", "e", "a", "r", "e", "r", " ">>

\* str.startswith
StartsWith(s, p) == Len(s) >= Len(p) /\ SubSeq(s, 1, Len(p)) = p

\* variant of _extract_token without the startswith check
ExtractTokenNoCheck(auth) ==
    [ok |-> TRUE, token |-> SubSeq(auth, 8, Len(auth))]

\* the 401 HTTPException (ok = FALSE), or the token auth[7:]
_extract_token(auth) ==
    IF ~StartsWith(auth, BearerPrefix)
    THEN [ok |-> FALSE, token |-> <<>>]
    ELSE [ok |-> TRUE, token |-> SubSeq(auth, 8, Len(auth))]

(***************************************************************************)
(* str.strip                                                               *)
(***************************************************************************)
Whitespace == {" ", "\t", "\n"}

RECURSIVE LStrip(_)
LStrip(s) ==
    IF s = <<>> THEN <<>>
    ELSE IF Head(s) \in Whitespace THEN LStrip(Tail(s)) ELSE s

RECURSIVE RStrip(_)
RStrip(s) ==
    IF s = <<>> THEN <<>>
    ELSE IF s[Len(s)] \in Whitespace THEN RStrip(SubSeq(s, 1, Len(s) - 1)) ELSE s

\* variant of Strip: the message is taken as it is
StripNone(s) == s

Strip(s) == RStrip(LStrip(s))

(***************************************************************************)
(* agent.py: create_bigquery_agent, and Runner(agent=...)                  *)
(***************************************************************************)
\* the agent keeps the credentials, the compute project and the dataset
\* clause of its instruction
create_bigquery_agent(access_token, project_id, default_dataset) ==
    [access_token |-> access_token,
     project_id |-> project_id,
     default_dataset |-> default_dataset]

\* a Runner object: its identity and the agent it owns
Runner(id, agent) == [id |-> id, agent |-> agent]

NoRunner == Runner(0, create_bigquery_agent(<<>>, None, None))

\* session.id of the n-th session created by session_service (a fresh uuid)
NewSessionId(n) == "s" \o ToString(n)

(***************************************************************************)
(* OutboundEvent records (the JSON objects of the SSE stream)              *)
(***************************************************************************)
EvSession(sid) == [type |-> "session", session_id |-> sid]
EvText(c) == [type |-> "text", content |-> c]
EvTool(n) == [type |-> "tool", name |-> n]
EvError(m) == [type |-> "error", content |-> m]
EvDone(i, o) == [type |-> "done", input_tokens |-> i, output_tokens |-> o]

(***************************************************************************)
(* Raw events of runner.run_async                                          *)
(***************************************************************************)
\* usage_metadata is None, or carries two int-or-None counters
NoUsage == [has |-> FALSE, prompt_token_count |-> NoneInt,
            candidates_token_count |-> NoneInt]
Usage(p, c) == [has |-> TRUE, prompt_token_count |-> p,
                candidates_token_count |-> c]

\* a part: text is "" when the part has no text (None and the empty string are
\* the same to `part.text` in line 169), function_call is the name of the call,
\* "" when the part has no function call
Part(text, fc) == [text |-> text, function_call |-> fc]

\* content is None (has = FALSE) or a Content with a list of parts
NoContent == [has |-> FALSE, parts |-> <<>>]
Content(parts) == [has |-> TRUE, parts |-> parts]

RawEvent(usage, content) == [usage_metadata |-> usage, content |-> content]

NoEvent == RawEvent(NoUsage, NoContent)

\* the raw events the runtime of the model can feed
RawEvents ==
    { RawEvent(NoUsage, Content(<<Part("a", "")>>)),
      RawEvent(Usage(NoneInt, 2), Content(<<Part("", "f"), Part("c", "")>>)),
      RawEvent(Usage(2, 1), NoContent) }

(***************************************************************************)
(* State                                                                   *)
(***************************************************************************)
VARIABLES
    active_runners,   \* server.py:39, session id -> {runner, session, project_id}
    session_service,  \* server.py:38, runtime session id -> turns submitted to it
    nextId,           \* number of the next Runner / runtime session to be created
    req,              \* per request task: position in query / event_stream, locals
    calls,            \* number of POST /api/query calls handled so far
    resp              \* response of the last reset / discovery call, with the
                      \* number of upstream requests that call made

vars == <<active_runners, session_service, nextId, req, calls, resp>>

\* the Request object of a task: its Authorization header and its JSON body
NoRequest ==
    [auth |-> <<>>,
     body |-> [message |-> <<>>, project_id |-> None, dataset |-> None,
               session_id |-> None]]

\* a request task with no request in progress
IdleReq ==
    [pc |-> "idle", status |-> 0, request |-> NoRequest,
     session_id |-> "", runner |-> NoRunner,
     session |-> "", content |-> <<>>, out |-> <<>>,
     input_tokens |-> 0, output_tokens |-> 0,
     event |-> NoEvent, idx |-> 0, raws |-> <<>>, raised |-> FALSE]

\* the answer of a reset / discovery call: exc tells an HTTPException from a
\* returned body; code and data are the upstream response the call received;
\* projects / datasets is the list of the returned body
Response(op, status, exc, detail, upstream) ==
    [op |-> op, status |-> status, exc |-> exc, detail |-> detail,
     upstream |-> upstream, code |-> 0, data |-> <<>>,
     projects |-> <<>>, datasets |-> <<>>]

NoResp == Response("none", 0, FALSE, "", 0)

Init ==
    /\ active_runners = <<>>
    /\ session_service = <<>>
    /\ nextId = 1
    /\ req = [r \in Slots |-> IdleReq]
    /\ calls = 0
    /\ resp = NoResp

(***************************************************************************)
(* query: the handler up to `return StreamingResponse(...)`                *)
(***************************************************************************)
\* the 400 of lines 110-113, 200 when the body is accepted
Validate(user_message, project_id) ==
    IF user_message = <<>> THEN 400
    ELSE IF ~Truthy(project_id) THEN 400
    ELSE 200

\* variant of RegistryHit: the registry is never consulted
RegistryHitNever(reg, session_id) == FALSE

\* `session_id and session_id in active_runners`
RegistryHit(reg, session_id) ==
    Truthy(session_id) /\ session_id.s \in DOMAIN reg

\* a query call answered with a JSON error / HTTPException
Rejected(status) == [IdleReq EXCEPT !.pc = "rejected", !.status = status]

\* the task of the request (auth, body)
Of(slot, auth, body) == [slot EXCEPT !.request = [auth |-> auth, body |-> body]]

\* the closure of event_stream: session_id, runner, session, content
Accepted(session_id, runner, session, content) ==
    [IdleReq EXCEPT !.pc = "response", !.status = 200,
                    !.session_id = session_id, !.runner = runner,
                    !.session = session, !.content = content]

\* variant of SessionKey: an id the request supplied is kept
SessionKeyKeepsAsked(asked, session) ==
    IF Truthy(asked) THEN asked.s ELSE session

\* line 135: `session_id = session.id`, whatever id the request supplied
SessionKey(asked, session) == session

query(r, auth, body) ==
    /\ req[r].pc = "idle"
    /\ calls < MaxCalls
    /\ calls' = calls + 1
    /\ UNCHANGED resp
    /\ LET token == _extract_token(auth)
           user_message == Strip(body.message)
           status == Validate(user_message, body.project_id)
       IN  IF ~token.ok
           THEN /\ req' = [req EXCEPT ![r] = Of(Rejected(401), auth, body)]
                /\ UNCHANGED <<active_runners, session_service, nextId>>
           ELSE IF status # 200
           THEN /\ req' = [req EXCEPT ![r] = Of(Rejected(status), auth, body)]
                /\ UNCHANGED <<active_runners, session_service, nextId>>
           ELSE IF RegistryHit(active_runners, body.session_id)
           THEN LET entry == active_runners[body.session_id.s]
                IN  /\ req' = [req EXCEPT ![r] =
                                 Of(Accepted(body.session_id.s, entry.runner,
                                             entry.session, user_message),
                                    auth, body)]
                    /\ UNCHANGED <<active_runners, session_service, nextId>>
           ELSE LET agent == create_bigquery_agent(token.token, body.project_id,
                                                   body.dataset)
                    runner == Runner(nextId, agent)
                    session == NewSessionId(nextId)
                    session_id == SessionKey(body.session_id, session)
                IN  /\ nextId' = nextId + 1
                    /\ session_service' = (session :> <<>>) @@ session_service
                    /\ active_runners' =
                         (session_id :> [runner |-> runner, session |-> session,
                                         project_id |-> body.project_id])
                         @@ active_runners
                    /\ req' = [req EXCEPT ![r] =
                                 Of(Accepted(session_id, runner, session, user_message),
                                    auth, body)]

(***************************************************************************)
(* reset_session                                                           *)
(***************************************************************************)
\* variant of ResetRegistry without the del
ResetKeepsEntry(reg, session_id) == reg

\* lines 193-194
ResetRegistry(reg, session_id) ==
    IF Truthy(session_id) /\ session_id.s \in DOMAIN reg
    THEN [k \in DOMAIN reg \ {session_id.s} |-> reg[k]]
    ELSE reg

\* variant of reset_session that also cancels the streams of that session
ResetAbortsTurns(auth, session_id) ==
    /\ active_runners' = ResetRegistry(active_runners, session_id)
    /\ resp' = Response("reset", 200, FALSE, "ok", 0)
    /\ req' = [r \in Slots |->
                 IF session_id.t = "str" /\ req[r].session = session_id.s
                    /\ req[r].pc \notin {"idle", "rejected", "closed"}
                 THEN [req[r] EXCEPT !.pc = "cancelled"]
                 ELSE req[r]]
    /\ UNCHANGED <<session_service, nextId, calls>>

\* auth is the Authorization header of the request, which the handler never reads
reset_session(auth, session_id) ==
    /\ active_runners' = ResetRegistry(active_runners, session_id)
    /\ resp' = Response("reset", 200, FALSE, "ok", 0)
    /\ UNCHANGED <<session_service, nextId, req, calls>>

(***************************************************************************)
(* event_stream: the async generator, one action per resumption            *)
(*   pc = "response" : StreamingResponse returned, generator not started   *)
(*   pc = "session" / "text" / "tool" / "error" / "done" : suspended at    *)
(*        the yield of that event (lines 152, 170, 177, 180, 183)          *)
(*   pc = "await"    : suspended in `async for`, waiting for the runtime   *)
(*   pc = "closed"   : generator exhausted, response complete              *)
(*   pc = "cancelled": generator closed by a client disconnect             *)
(*   pc = "crashed"  : an exception left the generator                     *)
(***************************************************************************)
\* hand one SSE record to the transport and suspend at that yield
Yield(slot, pc, ev) == [slot EXCEPT !.pc = pc, !.out = Append(@, ev)]

\* lines 160-165
UpdateUsage(slot, e) ==
    IF e.usage_metadata.has
    THEN [slot EXCEPT
            !.input_tokens = OrZero(e.usage_metadata.prompt_token_count),
            !.output_tokens = OrZero(e.usage_metadata.candidates_token_count)]
    ELSE slot

\* variant of NextText without the `and part.text` test
NextTextAnyPart(parts, i) ==
    IF i <= Len(parts) THEN i ELSE 0

\* index of the first part at or after i with a non-empty text, 0 if none
NextText(parts, i) ==
    LET S == {j \in i..Len(parts) : parts[j].text # ""}
    IN  IF S = {} THEN 0 ELSE CHOOSE j \in S : \A k \in S : j <= k

\* index of the first part at or after i with a function_call, 0 if none
NextTool(parts, i) ==
    LET S == {j \in i..Len(parts) : parts[j].function_call # ""}
    IN  IF S = {} THEN 0 ELSE CHOOSE j \in S : \A k \in S : j <= k

\* lines 172-177 from part i on; back to `async for` when the pass is over
ScanTool(slot, i) ==
    LET j == NextTool(slot.event.content.parts, i)
    IN  IF slot.event.content.has /\ j > 0
        THEN [Yield(slot, "tool", EvTool(slot.event.content.parts[j].function_call))
                EXCEPT !.idx = j]
        ELSE [slot EXCEPT !.pc = "await", !.idx = 0, !.event = NoEvent]

\* variant of ScanText that collects the records of a raw event in a list and
\* hands them over together
ScanTextEager(slot, i) ==
    LET parts == IF slot.event.content.has THEN slot.event.content.parts ELSE <<>>
        texts == SelectSeq(parts, LAMBDA q : q.text # "")
        fns == SelectSeq(parts, LAMBDA q : q.function_call # "")
    IN  [slot EXCEPT !.pc = "await", !.idx = 0, !.event = NoEvent,
                     !.out = @ \o [k \in 1..Len(texts) |-> EvText(texts[k].text)]
                               \o [k \in 1..Len(fns) |-> EvTool(fns[k].function_call)]]

\* lines 167-170 from part i on, then the tool pass
ScanText(slot, i) ==
    LET j == NextText(slot.event.content.parts, i)
    IN  IF slot.event.content.has /\ j > 0
        THEN [Yield(slot, "text", EvText(slot.event.content.parts[j].text))
                EXCEPT !.idx = j]
        ELSE ScanTool(slot, 1)

\* variant of DoneEvent: the counters are shared by all streams
DoneEventShared(rq, r) ==
    EvDone(rq[1].input_tokens, rq[1].output_tokens)

\* line 183: the counters are the locals of the stream that yields
DoneEvent(rq, r) ==
    EvDone(rq[r].input_tokens, rq[r].output_tokens)

\* variant of OnException without the except clause
OnExceptionPropagate(slot) ==
    [slot EXCEPT !.pc = "crashed", !.idx = 0, !.event = NoEvent]

\* lines 179-180: the except clause
OnException(slot) ==
    [Yield(slot, "error", EvError("exception"))
       EXCEPT !.idx = 0, !.event = NoEvent]

\* variant of AfterTry: `done` is yielded only when the try block ended normally
AfterTryNoDone(rq, r) ==
    [rq[r] EXCEPT !.pc = IF rq[r].raised THEN "closed" ELSE "done",
                  !.out = IF rq[r].raised THEN @ ELSE Append(@, DoneEvent(rq, r))]

\* lines 182-183, reached after the try statement on both paths
AfterTry(rq, r) == Yield(rq[r], "done", DoneEvent(rq, r))

\* a turn is in flight from the call of runner.run_async to the end of its feed
InFlight(slot) == slot.pc \in {"await", "text", "tool"}

\* the transport starts iterating: lines 148-152
StreamStart(r) ==
    /\ req[r].pc = "response"
    /\ req' = [req EXCEPT ![r] =
                 Yield(req[r], "session", EvSession(req[r].session_id))]
    /\ UNCHANGED <<active_runners, session_service, nextId, calls, resp>>

\* the turn runner.run_async(session_id=session.id, new_message=content) records
Turn(slot) == [runner |-> slot.runner.id, message |-> slot.content]

\* the transport asks for the next record: the generator runs to its next
\* yield, to the next wait for the runtime, or to its end
Resume(r) ==
    /\ req[r].pc \in {"session", "text", "tool", "error", "done"}
    /\ UNCHANGED <<active_runners, nextId, calls, resp>>
    /\ IF req[r].pc = "session"
       THEN /\ req' = [req EXCEPT ![r].pc = "await"]
            /\ session_service' =
                 [session_service EXCEPT ![req[r].session] = Append(@, Turn(req[r]))]
       ELSE /\ UNCHANGED session_service
            /\ req' = [req EXCEPT ![r] =
                         CASE req[r].pc = "text" -> ScanText(req[r], req[r].idx + 1)
                           [] req[r].pc = "tool" -> ScanTool(req[r], req[r].idx + 1)
                           [] req[r].pc = "error" -> AfterTry(req, r)
                           [] req[r].pc = "done" -> [req[r] EXCEPT !.pc = "closed"]]

\* the runtime feeds raw event e
FeedEvent(r, e) ==
    /\ req[r].pc = "await"
    /\ Len(req[r].raws) < MaxFeed
    /\ req' = [req EXCEPT ![r] =
                 ScanText(UpdateUsage([req[r] EXCEPT !.event = e,
                                                     !.raws = Append(@, e)], e), 1)]
    /\ UNCHANGED <<active_runners, session_service, nextId, calls, resp>>

\* the feed of the runtime ends
FeedEnd(r) ==
    /\ req[r].pc = "await"
    /\ req' = [req EXCEPT ![r] = AfterTry(req, r)]
    /\ UNCHANGED <<active_runners, session_service, nextId, calls, resp>>

\* the feed of the runtime raises an Exception
FeedRaise(r) ==
    /\ req[r].pc = "await"
    /\ req' = [req EXCEPT ![r] = OnException([req[r] EXCEPT !.raised = TRUE])]
    /\ UNCHANGED <<active_runners, session_service, nextId, calls, resp>>

\* variant of Disconnect: closing the stream also drops the registry entry
DisconnectTearsDown(r) ==
    /\ req[r].pc \in {"response", "session", "await", "text", "tool", "error", "done"}
    /\ req' = [req EXCEPT ![r].pc = "cancelled", ![r].idx = 0, ![r].event = NoEvent]
    /\ active_runners' =
         [k \in DOMAIN active_runners \ {req[r].session_id} |-> active_runners[k]]
    /\ UNCHANGED <<session_service, nextId, calls, resp>>

\* the client goes away: the generator is closed where it is suspended
\* (GeneratorExit at a yield, CancelledError in the async for; neither is an
\* Exception, so the except clause of line 179 does not run)
Disconnect(r) ==
    /\ req[r].pc \in {"response", "session", "await", "text", "tool", "error", "done"}
    /\ req' = [req EXCEPT ![r].pc = "cancelled", ![r].idx = 0, ![r].event = NoEvent]
    /\ UNCHANGED <<active_runners, session_service, nextId, calls, resp>>

\* variant of Finish: the entry of the session is dropped when its turn is over
FinishDropsEntry(r) ==
    /\ req[r].pc \in {"rejected", "closed", "cancelled", "crashed"}
    /\ req' = [req EXCEPT ![r] = IdleReq]
    /\ active_runners' =
         [k \in DOMAIN active_runners \ {req[r].session_id} |-> active_runners[k]]
    /\ UNCHANGED <<session_service, nextId, calls, resp>>

\* the request is over; the task can serve the next request
Finish(r) ==
    /\ req[r].pc \in {"rejected", "closed", "cancelled", "crashed"}
    /\ req' = [req EXCEPT ![r] = IdleReq]
    /\ UNCHANGED <<active_runners, session_service, nextId, calls, resp>>

(***************************************************************************)
(* Strings of the listings: sequences of characters with their code points *)
(***************************************************************************)
Alphabet == {"A", "B", "a", "b"}

\* ord(c)
Ord == ("A" :> 65) @@ ("B" :> 66) @@ ("a" :> 97) @@ ("b" :> 98)

\* str.lower
LowerChar == ("A" :> "a") @@ ("B" :> "b") @@ ("a" :> "a") @@ ("b" :> "b")

Lower(s) == [i \in 1..Len(s) |-> LowerChar[s[i]]]

\* s < t on Python strings: lexicographic on code points
RECURSIVE StrLess(_, _)
StrLess(s, t) ==
    IF t = <<>> THEN FALSE
    ELSE IF s = <<>> THEN TRUE
    ELSE \/ Ord[Head(s)] < Ord[Head(t)]
         \/ Head(s) = Head(t) /\ StrLess(Tail(s), Tail(t))

\* list.sort on a list of (key, value) pairs: ascending by key, stable
InsertPair(sorted, x) ==
    LET k == Cardinality({i \in 1..Len(sorted) : ~StrLess(x.key, sorted[i].key)})
    IN  SubSeq(sorted, 1, k) \o <<x>> \o SubSeq(sorted, k + 1, Len(sorted))

RECURSIVE ListSort(_)
ListSort(pairs) ==
    IF pairs = <<>> THEN <<>>
    ELSE InsertPair(ListSort(SubSeq(pairs, 1, Len(pairs) - 1)), pairs[Len(pairs)])

Values(pairs) == [i \in 1..Len(pairs) |-> pairs[i].value]

(***************************************************************************)
(* Discovery: list_projects, list_datasets                                 *)
(***************************************************************************)
ScopeDetail == "Token lacks project listing permissions"
UpstreamBody == "upstream body"

\* lines 62-69: the status and detail for an upstream status code
ProjectsResult(code) ==
    IF code = 403 THEN [status |-> 403, detail |-> ScopeDetail]
    ELSE IF code # 200 THEN [status |-> code, detail |-> UpstreamBody]
    ELSE [status |-> 200, detail |-> "projects"]

\* lines 91-92
DatasetsResult(code) ==
    IF code # 200 THEN [status |-> code, detail |-> UpstreamBody]
    ELSE [status |-> 200, detail |-> "datasets"]

\* an item of the upstream project listing; the name key can be absent
UpstreamProject(projectId, has_name, name, projectNumber) ==
    [projectId |-> projectId, has_name |-> has_name, name |-> name,
     projectNumber |-> projectNumber]

\* lines 72-75: one entry of the returned list
Project(p) ==
    [id |-> p.projectId,
     name |-> IF p.has_name THEN p.name ELSE p.projectId,
     number |-> p.projectNumber]

\* lines 72-76
SortedProjects(data) ==
    Values(ListSort([i \in 1..Len(data) |->
                       [key |-> Lower(Project(data[i]).name),
                        value |-> Project(data[i])]]))

\* an item of the upstream dataset listing
UpstreamDataset(datasetId) == [datasetId |-> datasetId]

\* lines 95-96
SortedDatasets(data) ==
    Values(ListSort([i \in 1..Len(data) |->
                       [key |-> data[i].datasetId, value |-> data[i].datasetId]]))

\* code and data are the status and the JSON body of the upstream response
list_projects(auth, code, data) ==
    /\ LET token == _extract_token(auth)
           result == ProjectsResult(code)
       IN  IF ~token.ok
           THEN resp' = Response("projects", 401, TRUE,
                                 "Missing or invalid Authorization header", 0)
           ELSE resp' = [Response("projects", result.status, result.status # 200,
                                  result.detail, 1)
                           EXCEPT !.code = code, !.data = data,
                                  !.projects = IF result.status = 200
                                               THEN SortedProjects(data) ELSE <<>>]
    /\ UNCHANGED <<active_runners, session_service, nextId, req, calls>>

list_datasets(auth, code, data) ==
    /\ LET token == _extract_token(auth)
           result == DatasetsResult(code)
       IN  IF ~token.ok
           THEN resp' = Response("datasets", 401, TRUE,
                                 "Missing or invalid Authorization header", 0)
           ELSE resp' = [Response("datasets", result.status, result.status # 200,
                                  result.detail, 1)
                           EXCEPT !.code = code, !.data = data,
                                  !.datasets = IF result.status = 200
                                               THEN SortedDatasets(data) ELSE <<>>]
    /\ UNCHANGED <<active_runners, session_service, nextId, req, calls>>

(***************************************************************************)
(* Requests of the model                                                   *)
(***************************************************************************)
BearerT == <<"B", "e", "a", "r", "e", "r", " ", "t">>
BearerU == <<"B", "e", "a", "r", "e", "r", " ", "u">>
BearerEmpty == <<"B", "e", "a", "r", "e", "r", " ">>

\* the session ids issued so far
IssuedIds == { Str(NewSessionId(n)) : n \in 1..(nextId - 1) }

\* the ids a client can send: none, empty, one the server never issued, and
\* the ids issued so far
SessionIds == { None, Str(""), Str("x") } \cup IssuedIds

UpstreamCodes == {200, 403, 404, 500}

(***************************************************************************)
(* Spec: NReq concurrent request tasks of clients that follow the protocol *)
(***************************************************************************)
ClientAuthHeaders == { <<>>, BearerT }

ClientSessionIds == { None } \cup IssuedIds

ClientBodies ==
    [message : { <<>>, <<"h">> }, project_id : { Str("p") }, dataset : { None },
     session_id : ClientSessionIds]

Next ==
    \/ \E r \in Slots, auth \in ClientAuthHeaders, body \in ClientBodies :
          query(r, auth, body)
    \/ \E r \in Slots : StreamStart(r)
    \/ \E r \in Slots : Resume(r)
    \/ \E r \in Slots, e \in RawEvents : FeedEvent(r, e)
    \/ \E r \in Slots : FeedEnd(r)
    \/ \E r \in Slots : FeedRaise(r)
    \/ \E r \in Slots : Disconnect(r)
    \/ \E r \in Slots : Finish(r)
    \/ \E auth \in ClientAuthHeaders, session_id \in ClientSessionIds :
          reset_session(auth, session_id)

Spec == Init /\ [][Next]_vars

(***************************************************************************)
(* SpecApi: one request at a time, well-formed and malformed, on every     *)
(* endpoint                                                                *)
(***************************************************************************)
AuthHeaders ==
    { <<>>,                                         \* no Authorization header
      <<"B", "e", "a", "r", "e", "r">>,             \* scheme only
      <<"b", "e", "a", "r", "e", "r", " ", "t">>,   \* wrong case
      BearerEmpty,                                  \* empty token
      BearerT }

Messages == { <<>>, <<" ">>, <<" ", "h", " ">> }

ProjectIds == { None, Str(""), Str("p") }

Bodies ==
    [message : Messages, project_id : ProjectIds, dataset : { None },
     session_id : SessionIds]

NextApi ==
    \/ \E auth \in AuthHeaders, body \in Bodies : query(1, auth, body)
    \/ StreamStart(1)
    \/ Resume(1)
    \/ FeedEnd(1)
    \/ FeedRaise(1)
    \/ Finish(1)
    \/ \E auth \in AuthHeaders, session_id \in SessionIds :
          reset_session(auth, session_id)
    \/ \E auth \in AuthHeaders, code \in UpstreamCodes :
          list_projects(auth, code, <<>>)
    \/ \E auth \in AuthHeaders, code \in UpstreamCodes :
          list_datasets(auth, code, <<>>)

SpecApi == Init /\ [][NextApi]_vars

(***************************************************************************)
(* SpecSessions: one request at a time, accepted requests that differ in   *)
(* token, project, dataset and session id, and resets                      *)
(***************************************************************************)
SessionAuthHeaders == { BearerEmpty, BearerT, BearerU }

SessionBodies ==
    [message : { <<" ", "h", " ">> }, project_id : { Str("p"), Str("q") },
     dataset : { None, Str("d") }, session_id : SessionIds]

NextSessions ==
    \/ \E auth \in SessionAuthHeaders, body \in SessionBodies : query(1, auth, body)
    \/ StreamStart(1)
    \/ Resume(1)
    \/ \E e \in RawEvents : FeedEvent(1, e)
    \/ FeedEnd(1)
    \/ FeedRaise(1)
    \/ Finish(1)
    \/ \E auth \in SessionAuthHeaders, session_id \in SessionIds :
          reset_session(auth, session_id)

SpecSessions == Init /\ [][NextSessions]_vars

(***************************************************************************)
(* SpecStream: one request task and every feed of up to MaxFeed raw events *)
(* that combine usage metadata (absent, with null counters, with values)   *)
(* and content (absent, several text parts, function calls before, with    *)
(* and after text, a part with neither)                                    *)
(***************************************************************************)
StreamUsages ==
    { NoUsage, Usage(NoneInt, 2), Usage(2, NoneInt), Usage(3, 1) }

StreamContents ==
    { NoContent,
      Content(<<Part("a", ""), Part("b", "")>>),
      Content(<<Part("", "f"), Part("c", "")>>),
      Content(<<Part("a", "g"), Part("", ""), Part("", "f")>>) }

StreamEvents ==
    { RawEvent(u, c) : u \in StreamUsages, c \in StreamContents }

StreamBodies ==
    [message : { <<"h">> }, project_id : { Str("p") }, dataset : { None },
     session_id : ClientSessionIds]

NextStream ==
    \/ \E body \in StreamBodies : query(1, BearerT, body)
    \/ StreamStart(1)
    \/ Resume(1)
    \/ \E e \in StreamEvents : FeedEvent(1, e)
    \/ FeedEnd(1)
    \/ FeedRaise(1)
    \/ Disconnect(1)
    \/ Finish(1)

SpecStream == Init /\ [][NextStream]_vars

(***************************************************************************)
(* SpecDiscovery: the two discovery calls on every upstream response of up *)
(* to MaxItems items, with names and ids that differ in letter case        *)
(***************************************************************************)
SeqsUpTo(S, n) == UNION { [1..k -> S] : k \in 0..n }

\* upstream status codes: success, another 2xx, authorization failure, others
DiscoveryCodes == UpstreamCodes \cup {204}

UpstreamProjects ==
    { UpstreamProject(<<"b">>, FALSE, <<>>, 1),
      UpstreamProject(<<"a">>, TRUE, <<"B", "a">>, 2),
      UpstreamProject(<<"B">>, TRUE, <<"a">>, 3),
      UpstreamProject(<<"A">>, TRUE, <<"A">>, 4) }

UpstreamDatasets ==
    { UpstreamDataset(<<"a">>), UpstreamDataset(<<"A">>), UpstreamDataset(<<"B">>),
      UpstreamDataset(<<"a", "b">>), UpstreamDataset(<<"a", "B">>) }

NextDiscovery ==
    \/ \E auth \in ClientAuthHeaders, code \in DiscoveryCodes,
          data \in SeqsUpTo(UpstreamProjects, MaxItems) :
          list_projects(auth, code, data)
    \/ \E auth \in ClientAuthHeaders, code \in DiscoveryCodes,
          data \in SeqsUpTo(UpstreamDatasets, MaxItems) :
          list_datasets(auth, code, data)

SpecDiscovery == Init /\ [][NextDiscovery]_vars

(***************************************************************************)
(* What a stream produces when it runs alone, as a function of its feed    *)
(***************************************************************************)
HasText(part) == part.text # ""
HasCall(part) == part.function_call # ""

TextEvents(e) ==
    LET t == SelectSeq(e.content.parts, HasText)
    IN  [i \in 1..Len(t) |-> EvText(t[i].text)]

ToolEvents(e) ==
    LET t == SelectSeq(e.content.parts, HasCall)
    IN  [i \in 1..Len(t) |-> EvTool(t[i].function_call)]

EventsOf(e) == IF e.content.has THEN TextEvents(e) \o ToolEvents(e) ELSE <<>>

RECURSIVE Translated(_)
Translated(raws) ==
    IF raws = <<>> THEN <<>>
    ELSE Translated(SubSeq(raws, 1, Len(raws) - 1)) \o EventsOf(raws[Len(raws)])

\* the counters after the feed raws: those of its last event with usage metadata
RECURSIVE Counters(_)
Counters(raws) ==
    IF raws = <<>> THEN [input_tokens |-> 0, output_tokens |-> 0]
    ELSE LET u == raws[Len(raws)].usage_metadata
         IN  IF u.has
             THEN [input_tokens |-> OrZero(u.prompt_token_count),
                   output_tokens |-> OrZero(u.candidates_token_count)]
             ELSE Counters(SubSeq(raws, 1, Len(raws) - 1))

\* the events before the terminal step
Body(sid, raws) == <<EvSession(sid)>> \o Translated(raws)

RunAlone(sid, raws, raised) ==
    Body(sid, raws)
    \o (IF raised THEN <<EvError("exception")>> ELSE <<>>)
    \o <<EvDone(Counters(raws).input_tokens, Counters(raws).output_tokens)>>

Positions(out, type) == {i \in 1..Len(out) : out[i].type = type}

Types(out) == [i \in 1..Len(out) |-> out[i].type]

IsPrefix(s, t) == Len(s) <= Len(t) /\ SubSeq(t, 1, Len(s)) = s

(***************************************************************************)
(* C1: a stream consumed to its end has exactly one `session` event, its   *)
(* first, and exactly one `done` event, its last, whatever the feed did    *)
(* (normal end, no raw event, an exception); before the end, `session` is  *)
(* first and nothing follows a `done`.                                     *)
(***************************************************************************)
C1_SessionFirstDoneLast ==
    \A r \in Slots :
        LET out == req[r].out
        IN  /\ req[r].pc = "closed" =>
                 /\ Len(out) >= 2
                 /\ Positions(out, "session") = {1}
                 /\ Positions(out, "done") = {Len(out)}
            /\ out # <<>> =>
                 /\ Positions(out, "session") = {1}
                 /\ Positions(out, "done") \subseteq {Len(out)}

\* a stream whose feed raised after a raw event was consumed to its end
C1_Witness ==
    \E r \in Slots :
        req[r].pc = "closed" /\ req[r].raised /\ req[r].raws # <<>>

(***************************************************************************)
(* C2: when the feed raises after k raw events, the stream emits exactly   *)
(* one `error` event after the events of those k raw events, no `text` or  *)
(* `tool` event after it, `done` next, and the exception does not leave    *)
(* the stream; after two text fragments the stream is exactly session,     *)
(* text, text, error, done. A stream whose feed did not raise has no       *)
(* `error` event.                                                          *)
(***************************************************************************)
C2_ErrorThenDone ==
    \A r \in Slots :
        LET out == req[r].out
            E == Positions(out, "error")
        IN  /\ req[r].pc # "crashed"
            /\ Cardinality(E) <= 1
            /\ ~req[r].raised => E = {}
            /\ req[r].raised /\ req[r].pc # "cancelled" =>
                 /\ E = {Len(Body(req[r].session_id, req[r].raws)) + 1}
                 /\ IsPrefix(Body(req[r].session_id, req[r].raws), out)
            /\ \A i \in E :
                 /\ Len(out) <= i + 1
                 /\ Len(out) = i + 1 => out[i + 1].type = "done"
            /\ req[r].raised /\ req[r].pc = "closed" =>
                 /\ Len(out) = Len(Body(req[r].session_id, req[r].raws)) + 2
                 /\ Cardinality(Positions(Body(req[r].session_id, req[r].raws), "text")) = 2
                    /\ Len(out) = 5
                    => Types(out) = <<"session", "text", "text", "error", "done">>

\* the feed raised after two raw events with one text fragment each
C2_Witness ==
    \E r \in Slots :
        /\ req[r].pc = "closed"
        /\ req[r].raised
        /\ Len(req[r].raws) = 2
        /\ Types(req[r].out) = <<"session", "text", "text", "error", "done">>

(***************************************************************************)
(* C3: at most one turn is in flight against a runner and its conversation *)
(* state: two request tasks never are both between the start and the end   *)
(* of runner.run_async on the same registry entry.                         *)
(***************************************************************************)
C3_OneTurnPerRunner ==
    \A r1, r2 \in Slots :
        r1 # r2 /\ InFlight(req[r1]) /\ InFlight(req[r2]) =>
            /\ req[r1].runner.id # req[r2].runner.id
            /\ req[r1].session # req[r2].session

(***************************************************************************)
(* C8: while two request tasks stream on two distinct sessions, under      *)
(* every interleaving, what a stream has sent is what it sends when it     *)
(* runs alone on its own feed, the counters of its `done` included, and    *)
(* every turn a runtime session holds was submitted by the runner created  *)
(* with that session.                                                      *)
(***************************************************************************)
StreamAlone(slot) ==
    LET body == Body(slot.session_id, slot.raws)
        before == Body(slot.session_id, SubSeq(slot.raws, 1, Len(slot.raws) - 1))
    IN  CASE slot.pc = "session" -> slot.out = <<EvSession(slot.session_id)>>
          [] slot.pc = "await" -> slot.out = body
          [] slot.pc \in {"text", "tool"} ->
                IsPrefix(slot.out, body) /\ Len(slot.out) > Len(before)
          [] slot.pc = "error" -> slot.out = body \o <<EvError("exception")>>
          [] slot.pc \in {"done", "closed"} ->
                slot.out = RunAlone(slot.session_id, slot.raws, slot.raised)
          [] OTHER -> TRUE

Streaming(slot) ==
    slot.pc \in {"session", "await", "text", "tool", "error", "done", "closed"}

C8_DistinctSessionsIndependent ==
    /\ \A r1, r2 \in Slots :
           /\ r1 # r2 /\ Streaming(req[r1]) /\ Streaming(req[r2])
           /\ req[r1].session # req[r2].session
           => StreamAlone(req[r1]) /\ StreamAlone(req[r2])
    /\ \A sid \in DOMAIN session_service :
           \A i \in 1..Len(session_service[sid]) :
               NewSessionId(session_service[sid][i].runner) = sid

\* two turns in flight on distinct sessions, one of which has sent its `done`
\* with counters that differ from the counters of the other
C8_Witness ==
    \E r1, r2 \in Slots :
        /\ req[r1].session # req[r2].session
        /\ req[r1].pc = "done" /\ req[r2].pc = "done"
        /\ req[r1].raws # <<>> /\ req[r2].raws # <<>>
        /\ req[r1].out[Len(req[r1].out)].input_tokens
             # req[r2].out[Len(req[r2].out)].input_tokens

(***************************************************************************)
(* The step in which request task r gets the answer of the query handler   *)
(***************************************************************************)
Handled(r) == req[r].pc = "idle" /\ req'[r].pc # "idle"

\* a step that is not a stuttering step is a step of reset_session only if
\* ResetStep holds, and a step of list_projects or list_datasets only if
\* DiscoveryStep holds
ResetStep ==
    resp'.op = "reset" /\ (resp' # resp \/ active_runners' # active_runners)

DiscoveryStep == resp' # resp /\ resp'.op \in {"projects", "datasets"}

\* the session id of the request is a key of the registry
Present(session_id, reg) ==
    session_id.t = "str" /\ session_id.s # "" /\ session_id.s \in DOMAIN reg

(***************************************************************************)
(* C4: an accepted submit-turn call whose session id is in the registry    *)
(* uses the runner and the session of that entry, creates no agent, runner *)
(* or runtime session and leaves the registry as it is, whatever project,  *)
(* dataset and token the request carries.                                  *)
(***************************************************************************)
C4_HitReusesEntry ==
    [][\A r \in Slots :
         LET asked == req'[r].request.body.session_id
         IN  Handled(r) /\ req'[r].status = 200 /\ Present(asked, active_runners)
             => /\ req'[r].runner = active_runners[asked.s].runner
                /\ req'[r].session = active_runners[asked.s].session
                /\ req'[r].session_id = asked.s
                /\ active_runners' = active_runners
                /\ session_service' = session_service
                /\ nextId' = nextId]_vars

\* a call was answered from the entry of its session id although its token,
\* its project and its dataset all differ from those the entry was created with
C4_Witness ==
    \E r \in Slots :
        LET asked == req[r].request.body.session_id
        IN  /\ req[r].pc = "response"
            /\ Present(asked, active_runners)
            /\ req[r].runner = active_runners[asked.s].runner
            /\ req[r].request.body.project_id # active_runners[asked.s].project_id
            /\ req[r].request.body.dataset # req[r].runner.agent.default_dataset
            /\ SubSeq(req[r].request.auth, 8, Len(req[r].request.auth))
                 # req[r].runner.agent.access_token

(***************************************************************************)
(* C5: reset-session always answers with the success acknowledgement;      *)
(* after it the given id is not a key of the registry and every other      *)
(* entry is as before; resetting again (or resetting an absent id, or no   *)
(* id) changes nothing more and is no error.                               *)
(***************************************************************************)
C5_ResetRemovesOnlyThatId ==
    [][\A session_id \in SessionIds :
         ResetStep /\ reset_session(<<>>, session_id)
         => /\ resp'.op = "reset" /\ resp'.status = 200
            /\ session_id.t = "str" => session_id.s \notin DOMAIN active_runners'
            /\ DOMAIN active_runners' = DOMAIN active_runners \ {session_id.s}
            /\ \A k \in DOMAIN active_runners' : active_runners'[k] = active_runners[k]
            /\ ResetRegistry(active_runners', session_id) = active_runners'
            /\ ~Present(session_id, active_runners) => active_runners' = active_runners]_vars

\* a reset has removed the entry of an issued id and left another entry
C5_Witness ==
    /\ resp.op = "reset"
    /\ active_runners # <<>>
    /\ DOMAIN session_service \ DOMAIN active_runners # {}

(***************************************************************************)
(* C6: after reset-session on an id, a submit-turn that carries this id    *)
(* gets a runner that did not exist before and a new runtime session with  *)
(* an empty conversation: a reset id is not a key, an id that is not a key *)
(* does not become one, and a call whose id is not a key creates both.     *)
(***************************************************************************)
C6_ResetThenFreshRunner ==
    [][/\ \A session_id \in SessionIds :
            ResetStep /\ reset_session(<<>>, session_id) /\ session_id.t = "str"
            => session_id.s \notin DOMAIN active_runners'
       /\ \A session_id \in SessionIds :
            session_id.t = "str" /\ session_id.s \notin DOMAIN active_runners
            => session_id.s \notin DOMAIN active_runners'
       /\ \A r \in Slots :
            LET asked == req'[r].request.body.session_id
            IN  Handled(r) /\ req'[r].status = 200 /\ asked.t = "str"
                /\ ~Present(asked, active_runners)
                => /\ req'[r].runner.id = nextId
                   /\ \A k \in DOMAIN active_runners :
                        active_runners[k].runner.id < req'[r].runner.id
                   /\ \A q \in Slots : req[q].runner.id < req'[r].runner.id
                   /\ req'[r].session \notin DOMAIN session_service
                   /\ req'[r].session # asked.s
                   /\ session_service'[req'[r].session] = <<>>
                   /\ active_runners'[req'[r].session].runner = req'[r].runner]_vars

\* a call that carried the reset id s1 was given the new session s2, while the
\* runtime session s1 still holds the turn of the earlier conversation
C6_Witness ==
    \E r \in Slots :
        /\ req[r].pc = "response"
        /\ req[r].request.body.session_id = Str("s1")
        /\ req[r].session = "s2"
        /\ req[r].runner.id = 2
        /\ "s1" \in DOMAIN session_service
        /\ session_service["s1"] # <<>>
        /\ session_service["s2"] = <<>>

(***************************************************************************)
(* C7: the session ids that are keys of the registry are the session ids   *)
(* the runtime's session store holds, in every reachable state.            *)
(***************************************************************************)
C7_RegistryMatchesSessionStore ==
    DOMAIN active_runners = DOMAIN session_service

(***************************************************************************)
(* C9: a submit-turn request whose message is empty or whitespace only, or *)
(* whose project id is missing, is rejected before any work: no agent,     *)
(* runner or runtime session is created, the registry is unchanged and the *)
(* stream never produces an event.                                         *)
(***************************************************************************)
Blank(message) == \A i \in 1..Len(message) : message[i] \in Whitespace

Missing(v) == v = None \/ v = Str("")

Invalid(request) ==
    Blank(request.body.message) \/ Missing(request.body.project_id)

C9_InvalidRejectedBeforeWork ==
    /\ [](\A r \in Slots :
            req[r].pc # "idle" /\ Invalid(req[r].request)
            => /\ req[r].pc = "rejected"
               /\ req[r].status \in {400, 401}
               /\ req[r].out = <<>>
               /\ req[r].runner = NoRunner)
    /\ [][\A r \in Slots :
            Handled(r) /\ Invalid(req'[r].request)
            => /\ active_runners' = active_runners
               /\ session_service' = session_service
               /\ nextId' = nextId]_vars

\* a request with a valid token, a project and the id of a registered session
\* was rejected with 400 because its message is whitespace only
C9_Witness ==
    \E r \in Slots :
        /\ req[r].pc = "rejected" /\ req[r].status = 400
        /\ req[r].request.auth = BearerT
        /\ req[r].request.body.message = <<" ">>
        /\ req[r].request.body.project_id = Str("p")
        /\ Present(req[r].request.body.session_id, active_runners)

(***************************************************************************)
(* C10: on list-namespaces, list-sub-namespaces and submit-turn a request  *)
(* whose Authorization header is absent or does not start with `Bearer `   *)
(* is answered 401 before anything else: no upstream request, no agent,    *)
(* runner or session, the registry unchanged, no stream. reset-session     *)
(* answers 200 whatever the header.                                        *)
(***************************************************************************)
BearerForm(auth) ==
    /\ Len(auth) >= 7
    /\ <<auth[1], auth[2], auth[3], auth[4], auth[5], auth[6]>>
         = <<"B", "e", "a", "r", "e", "r">>
    /\ auth[7] = " "

C10_UnauthorizedBeforeWork ==
    /\ [](\A r \in Slots :
            req[r].pc # "idle" /\ ~BearerForm(req[r].request.auth)
            => /\ req[r].pc = "rejected"
               /\ req[r].status = 401
               /\ req[r].out = <<>>
               /\ req[r].runner = NoRunner)
    /\ [][\A r \in Slots :
            Handled(r) /\ ~BearerForm(req'[r].request.auth)
            => /\ active_runners' = active_runners
               /\ session_service' = session_service
               /\ nextId' = nextId]_vars
    /\ [][\A header \in AuthHeaders, code \in UpstreamCodes :
            /\ DiscoveryStep /\ ~BearerForm(header)
            /\ list_projects(header, code, <<>>) \/ list_datasets(header, code, <<>>)
            => /\ resp'.status = 401
               /\ resp'.upstream = 0
               /\ UNCHANGED <<active_runners, session_service, nextId, req>>]_vars
    /\ [][\A header \in AuthHeaders, session_id \in SessionIds :
            ResetStep /\ reset_session(header, session_id)
            => /\ resp'.status = 200
               /\ active_runners' = ResetRegistry(active_runners, session_id)]_vars

\* a submit-turn with a header without token and the id of a registered session
\* was answered 401, and so was the discovery call after it
C10_Witness ==
    \E r \in Slots :
        /\ req[r].pc = "rejected" /\ req[r].status = 401
        /\ req[r].request.auth = <<"B", "e", "a", "r", "e", "r">>
        /\ ~Invalid(req[r].request)
        /\ Present(req[r].request.body.session_id, active_runners)
        /\ resp.op \in {"projects", "datasets"} /\ resp.status = 401

(***************************************************************************)
(* C11: a successful list-namespaces returns the upstream projects, each   *)
(* as id, display name (the project id when the name is absent) and        *)
(* number, in an order that is ascending in the lower-cased display name;  *)
(* a successful list-sub-namespaces returns the upstream dataset ids in an *)
(* order that is ascending in the lower-cased id. Both are permutations of *)
(* what the upstream sent.                                                 *)
(***************************************************************************)
Count(seq, x) == Cardinality({i \in 1..Len(seq) : seq[i] = x})

Permutation(s, t) ==
    /\ Len(s) = Len(t)
    /\ \A i \in 1..Len(s) : Count(s, s[i]) = Count(t, s[i])

\* no element is case-insensitively greater than a later one
SortedCaseInsensitive(keys) ==
    \A i, j \in 1..Len(keys) :
        i < j => ~StrLess(Lower(keys[j]), Lower(keys[i]))

Displayed(p) ==
    [id |-> p.projectId,
     name |-> IF p.has_name THEN p.name ELSE p.projectId,
     number |-> p.projectNumber]

C11_DiscoverySortedCaseInsensitive ==
    /\ resp.op = "projects" /\ ~resp.exc =>
          /\ Permutation(resp.projects,
                         [i \in 1..Len(resp.data) |-> Displayed(resp.data[i])])
          /\ SortedCaseInsensitive([i \in 1..Len(resp.projects) |->
                                      resp.projects[i].name])
    /\ resp.op = "datasets" /\ ~resp.exc =>
          /\ Permutation(resp.datasets,
                         [i \in 1..Len(resp.data) |-> resp.data[i].datasetId])
          /\ SortedCaseInsensitive(resp.datasets)

(***************************************************************************)
(* C12: in both discovery calls an upstream 403 is answered with the       *)
(* insufficient-scope error, not with the upstream body; every other       *)
(* upstream status outside 200..299 is answered with that status and the   *)
(* upstream body; an upstream status in 200..299 is never answered with an *)
(* error.                                                                  *)
(***************************************************************************)
C12_UpstreamErrorMapping ==
    resp.op \in {"projects", "datasets"} /\ resp.upstream = 1 =>
        /\ resp.code = 403 =>
              resp.exc /\ resp.status = 403 /\ resp.detail # UpstreamBody
        /\ resp.code \notin 200..299 /\ resp.code # 403 =>
              resp.exc /\ resp.status = resp.code /\ resp.detail = UpstreamBody
        /\ resp.code \in 200..299 => ~resp.exc

(***************************************************************************)
(* C13: the `text` and `tool` events of a stream lie between `session` and *)
(* the terminal `error` / `done` and are, in this order, for each raw      *)
(* event in arrival order: one `text` event per part that carries text, in *)
(* part order, then one `tool` event per part that carries a function      *)
(* call, in part order. While the events of the last raw event are being   *)
(* sent the stream has sent a prefix of that sequence.                     *)
(***************************************************************************)
IsContentEvent(ev) == ev.type \in {"text", "tool"}

Between(out) == SelectSeq(out, IsContentEvent)

Front(seq) == SubSeq(seq, 1, Len(seq) - 1)

C13_TranslationInArrivalOrder ==
    \A r \in Slots :
        LET out == req[r].out
            mid == Between(out)
            all == Translated(req[r].raws)
        IN  /\ \A i \in Positions(out, "text") \cup Positions(out, "tool") :
                   /\ i > 1
                   /\ \A j \in Positions(out, "error") \cup Positions(out, "done") :
                        i < j
            /\ req[r].pc \in {"await", "error", "done", "closed"} => mid = all
            /\ req[r].pc \in {"text", "tool"} =>
                   /\ IsPrefix(mid, all)
                   /\ Len(mid) > Len(Translated(Front(req[r].raws)))
            /\ req[r].pc = "cancelled" => IsPrefix(mid, all)

\* a finished stream of two raw events: the second has a function call in a
\* part before a part with text, and its text event was sent before its tool
\* event, after the two text events of the first
C13_Witness ==
    \E r \in Slots :
        /\ req[r].pc = "closed"
        /\ Len(req[r].raws) = 2
        /\ req[r].raws[2].content = Content(<<Part("", "f"), Part("c", "")>>)
        /\ req[r].out = <<EvSession(req[r].session_id), EvText("a"), EvText("b"),
                          EvText("c"), EvTool("f"),
                          req[r].out[Len(req[r].out)]>>

(***************************************************************************)
(* C14: the counters of `done` are, each on its own, the latest value that *)
(* is not null among the usage metadata of the raw events of the turn, 0   *)
(* when there is none; a later null counter does not replace an earlier    *)
(* value. Also when the turn ended in an error.                            *)
(***************************************************************************)
RECURSIVE LatestNonNull(_, _)
LatestNonNull(raws, counter) ==
    IF raws = <<>> THEN 0
    ELSE LET u == raws[Len(raws)].usage_metadata
         IN  IF u.has /\ u[counter] # NoneInt THEN u[counter]
             ELSE LatestNonNull(Front(raws), counter)

C14_LatestNonNullCounters ==
    \A r \in Slots :
        req[r].pc \in {"done", "closed"} =>
            req[r].out[Len(req[r].out)]
              = EvDone(LatestNonNull(req[r].raws, "prompt_token_count"),
                       LatestNonNull(req[r].raws, "candidates_token_count"))

(***************************************************************************)
(* C15: the stream hands over one event at a time, at the moment it is     *)
(* computed: a raw event is taken from the runtime only when every event   *)
(* of the raw events before it has been sent, the turn of the runtime is   *)
(* started only when `session` has been sent, and no step sends more than  *)
(* one event.                                                              *)
(***************************************************************************)
C15_LazyDelivery ==
    /\ [](\A r \in Slots :
             req[r].pc = "await" => req[r].out = Body(req[r].session_id, req[r].raws))
    /\ [][\A r \in Slots :
             req'[r].raws # req[r].raws /\ req'[r].pc # "idle"
             => /\ req[r].out = Body(req[r].session_id, req[r].raws)
                /\ Front(req'[r].raws) = req[r].raws]_vars
    /\ [][\A r \in Slots :
             req[r].pc # "idle" /\ req'[r].pc # "idle"
             => /\ IsPrefix(req[r].out, req'[r].out)
                /\ Len(req'[r].out) <= Len(req[r].out) + 1]_vars
    /\ [][\A sid \in DOMAIN session_service :
             session_service'[sid] # session_service[sid]
             => \E r \in Slots :
                  /\ req[r].session = sid
                  /\ req[r].out = <<EvSession(req[r].session_id)>>
                  /\ req[r].raws = <<>>]_vars

\* the text event of the second raw event has been sent while the two tool
\* events of that raw event are not yet computed and the feed has not ended
C15_Witness ==
    \E r \in Slots :
        /\ req[r].pc = "text"
        /\ Len(req[r].raws) = 2
        /\ req[r].event.content = Content(<<Part("a", "g"), Part("", ""), Part("", "f")>>)
        /\ req[r].out[Len(req[r].out)] = EvText("a")
        /\ Len(req[r].out) < Len(Body(req[r].session_id, req[r].raws))

(***************************************************************************)
(* C16: the step in which the client of a stream disconnects sends no      *)
(* event and leaves the registry and the runtime sessions as they are;     *)
(* after it the stream sends nothing more, neither `error` nor `done`; a   *)
(* submit-turn that then carries the session id of that stream, while the  *)
(* id is still a key, gets the runner the disconnected stream had.         *)
(***************************************************************************)
C16_DisconnectStopsStream ==
    /\ [][\A r \in Slots :
             req[r].pc # "cancelled" /\ req'[r].pc = "cancelled"
             => /\ req'[r].out = req[r].out
                /\ active_runners' = active_runners
                /\ session_service' = session_service]_vars
    /\ [][\A r \in Slots :
             req[r].pc = "cancelled" => req'[r] = req[r] \/ req'[r] = IdleReq]_vars
    /\ [][\A r, q \in Slots :
             /\ req[r].pc = "cancelled"
             /\ Handled(q) /\ req'[q].status = 200
             /\ req'[q].request.body.session_id = Str(req[r].session_id)
             /\ req[r].session_id \in DOMAIN active_runners
             => /\ req'[q].runner = req[r].runner
                /\ req'[q].session = req[r].session
                /\ active_runners' = active_runners]_vars

\* a stream was disconnected in the middle of its turn, after a raw event and
\* before any `error` or `done`, and the next call with its session id was
\* given the same runner
C16_Witness ==
    \E r, q \in Slots :
        /\ req[r].pc = "cancelled"
        /\ req[r].raws # <<>>
        /\ Positions(req[r].out, "done") \cup Positions(req[r].out, "error") = {}
        /\ req[q].pc = "session"
        /\ req[q].request.body.session_id = Str(req[r].session_id)
        /\ req[q].runner = req[r].runner

(***************************************************************************)
(* C17: a step that is not a reset-session (a submit-turn call, a step of  *)
(* a stream to its end or to its error, a discovery call) keeps every      *)
(* registry entry as it is; the key set grows by exactly one key in a      *)
(* submit-turn call that is accepted and misses the registry, and in no    *)
(* other step.                                                             *)
(***************************************************************************)
\* reset_session changes neither req nor calls and answers with op "reset";
\* every other action changes req or calls or answers with another op
NotReset == req' # req \/ calls' # calls \/ resp'.op # "reset"

Miss(r) ==
    /\ Handled(r)
    /\ req'[r].status = 200
    /\ ~Present(req'[r].request.body.session_id, active_runners)

C17_RegistryShrinksOnlyByReset ==
    [][/\ NotReset =>
            /\ \A k \in DOMAIN active_runners :
                  k \in DOMAIN active_runners' /\ active_runners'[k] = active_runners[k]
            /\ Cardinality(DOMAIN active_runners')
                  = Cardinality(DOMAIN active_runners)
                    + (IF \E r \in Slots : Miss(r) THEN 1 ELSE 0)
       /\ ~NotReset => DOMAIN active_runners' \subseteq DOMAIN active_runners]_vars

\* the registry still holds the entry made by the first call after a second
\* call hit it, its turn ended in an error and a discovery call was answered
C17_Witness ==
    /\ calls = 2
    /\ DOMAIN active_runners = {"s1"}
    /\ req[1].pc = "closed" /\ req[1].raised
    /\ req[1].request.body.session_id = Str("s1")
    /\ resp.op = "projects" /\ resp.upstream = 1

(***************************************************************************)
(* C18: every agent the factory was asked to create got a non-empty token  *)
(* and a non-empty project id, also for a request whose Authorization      *)
(* header is `Bearer ` and nothing more.                                   *)
(***************************************************************************)
FactoryInputsOk(agent) ==
    agent.access_token # <<>> /\ Truthy(agent.project_id)

C18_FactoryInputsNonEmpty ==
    /\ \A k \in DOMAIN active_runners : FactoryInputsOk(active_runners[k].runner.agent)
    /\ \A r \in Slots :
          req[r].runner # NoRunner => FactoryInputsOk(req[r].runner.agent)

(***************************************************************************)
(* C19: every registry entry is keyed by the id of the runtime session it  *)
(* holds; the id a stream announces in `session` is the id of the runtime  *)
(* session its turn is submitted to; a call that supplies an id that is no *)
(* key announces the newly generated id, not the supplied one, and the     *)
(* supplied id does not become a key.                                      *)
(***************************************************************************)
C19_KeyIsRuntimeSessionId ==
    /\ [](\A k \in DOMAIN active_runners : active_runners[k].session = k)
    /\ [](\A r \in Slots :
             req[r].out # <<>> => req[r].out[1] = EvSession(req[r].session))
    /\ [][\A sid \in DOMAIN session_service :
             session_service'[sid] # session_service[sid]
             => \E r \in Slots :
                  /\ req[r].out[1] = EvSession(sid)
                  /\ session_service'[sid] = Append(session_service[sid], Turn(req[r]))]_vars
    /\ [][\A r \in Slots :
             LET asked == req'[r].request.body.session_id
             IN  Miss(r) /\ asked.t = "str"
                 => /\ req'[r].session_id = NewSessionId(nextId)
                    /\ req'[r].session_id # asked.s
                    /\ req'[r].session = req'[r].session_id
                    /\ asked.s \notin DOMAIN active_runners'
                    /\ req'[r].session_id \in DOMAIN active_runners']_vars

\* a call supplied the id x, which the server never issued, after s1 was made:
\* its stream announced s2 and submitted its turn to the runtime session s2
C19_Witness ==
    \E r \in Slots :
        /\ req[r].request.body.session_id = Str("x")
        /\ req[r].pc = "await"
        /\ req[r].out = <<EvSession("s2")>>
        /\ "s2" \in DOMAIN active_runners
        /\ "x" \notin DOMAIN active_runners
        /\ Len(session_service["s2"]) = 1

(***************************************************************************)
(* C20: a reset-session that removes the entry of a session while a turn   *)
(* on it is running (or resolved and not yet started) changes no request   *)
(* task and no runtime session; the stream keeps its runner and its        *)
(* session to its end and its output is that of its own feed, ending with  *)
(* one `done`; the removed id does not become a key again; a submit-turn   *)
(* with that id gets another runner and another runtime session than the   *)
(* turn that is still running.                                             *)
(***************************************************************************)
C20_ResetDuringTurn ==
    /\ [][DOMAIN active_runners' # DOMAIN active_runners
          /\ DOMAIN active_runners' \subseteq DOMAIN active_runners
          => req' = req /\ session_service' = session_service]_vars
    /\ [][\A r \in Slots :
             req[r].pc # "idle" /\ req'[r].pc # "idle"
             => req'[r].runner = req[r].runner /\ req'[r].session = req[r].session]_vars
    /\ [](\A r \in Slots :
             Streaming(req[r]) /\ req[r].session \notin DOMAIN active_runners
             => /\ StreamAlone(req[r])
                /\ req[r].pc = "closed" =>
                      Positions(req[r].out, "done") = {Len(req[r].out)})
    /\ [][\A k \in DOMAIN session_service :
             k \notin DOMAIN active_runners => k \notin DOMAIN active_runners']_vars
    /\ [][\A r, q \in Slots :
             /\ r # q
             /\ req[q].pc \notin {"idle", "rejected"}
             /\ req[q].session \notin DOMAIN active_runners
             /\ Handled(r) /\ req'[r].status = 200
             /\ req'[r].request.body.session_id = Str(req[q].session)
             => /\ req'[r].runner.id # req[q].runner.id
                /\ req'[r].session # req[q].session
                /\ req'[q] = req[q]]_vars

\* the turn on s1 is still running on runner 1 after s1 was reset, and the
\* call that carried s1 after the reset runs its turn on runner 2
C20_Witness ==
    \E r, q \in Slots :
        /\ req[q].session = "s1" /\ req[q].runner.id = 1
        /\ InFlight(req[q]) /\ req[q].raws # <<>>
        /\ "s1" \notin DOMAIN active_runners
        /\ req[r].request.body.session_id = Str("s1")
        /\ req[r].runner.id = 2
        /\ InFlight(req[r])

====
